---- MODULE Spec2Model ----
(***************************************************************************)
(* A model of mkmock: the hook state of MKMOCK_DEFINE_HOOK, the hook       *)
(* checks MKMOCK_HOOK and MKMOCK_HOOK_ALLOC, and the scoped override       *)
(* MKMOCK_WITH_ENABLED_HOOK, in the two designs the repository holds:      *)
(*   "barrier"  src/mkmock.hpp: recursive mutex held across the snippet,   *)
(*              saved value and saved exception kept in the hook state;    *)
(*   "fine"     src/unnamed/part_000: plain mutex held around activation   *)
(*              and restoration only, saved value and exception locals.    *)
(* A thread is a stack of MKMOCK_WITH_ENABLED_HOOK expansions (the macro   *)
(* may be used inside its own CodeSnippet), at most one hook check in      *)
(* progress, and at most one exception in flight.                          *)
(***************************************************************************)
EXTENDS Integers, Sequences, FiniteSets, TLC

\* ------------------------------------------------------------------ bounds
MaxVal == 1        \* values of a hook's Type are 0..MaxVal; 0 is Type{} / nullptr
MaxEnter == 3      \* expansions of MKMOCK_WITH_ENABLED_HOOK started in one run

Variants == {"barrier", "fine"}
Threads == {"A", "B"}
Tags == {"T1", "T2"}
Values == 0..MaxVal
Default == 0
NoThread == "none"
NoExc == "none"
Recognized == {"E1", "E2"}       \* exceptions derived from std::exception
Unrecognized == {"U"}            \* anything else a snippet may throw
Exceptions == Recognized \cup Unrecognized

VARIABLES
  variant,   \* which of the two headers the build includes
  threads,   \* the threads the test runs
  inst,      \* [Tags -> [enabled, value, saved_value, saved_exc]]: the singletons
  mutex,     \* [Tags -> [owner, count]]: mkmock_Tag::mutex
  stack,     \* [Threads -> Seq(frame)]: expansions in progress, innermost last
  hk,        \* [Threads -> record]: the hook check in progress and its Variable
  exc,       \* [Threads -> exception or NoExc]: the exception in flight
  ret,       \* [Threads -> record]: the expansion that has just ended (history)
  hazard,    \* [Tags -> BOOLEAN]: history, an unrecognized exception left the tag
  entered    \* history: how many expansions were started

vars == <<variant, threads, inst, mutex, stack, hk, exc, ret, hazard, entered>>

\* What a run never changes.
build == <<variant, threads>>

\* ------------------------------------------------------------ hook state
\* class mkmock_Tag: the member initializers. The fine-grained class has no
\* saved_value and no saved_exc; there the two fields stay at their initial value.
mkmock_Tag == [enabled |-> FALSE, value |-> Default, saved_value |-> Default,
               saved_exc |-> NoExc]

FreeMutex == [owner |-> NoThread, count |-> 0]

\* Mutant: one mutex shared by all the tags (a static member of a common base).
CanLock_Global(v, m, t) ==
  \A T \in Tags :
    IF v = "barrier" THEN mutex[T].owner \in {NoThread, t}
    ELSE mutex[T].owner = NoThread

\* Mutant: lock() never waits.
CanLock_NoExclusion(v, m, t) == TRUE

\* Mutant: the mutex is a std::mutex in both variants (lock() waits for the owner too).
CanLock_Plain(v, m, t) == m.owner = NoThread

\* std::recursive_mutex::lock may proceed for the owner; std::mutex::lock may not
\* (relocking a std::mutex one owns is undefined; no expansion does it, the lock
\* being released at the end of each scope that takes it).
CanLock(v, m, t) ==
  IF v = "barrier" THEN m.owner \in {NoThread, t} ELSE m.owner = NoThread

\* Mutant: lock() does not count the holds of the owner.
Locked_NoCount(m, t) == [owner |-> t, count |-> 1]

Locked(m, t) == [owner |-> t, count |-> m.count + 1]

\* Mutant: unlock() frees the mutex whatever the hold count (not recursive).
Unlocked_All(m) == FreeMutex

\* unlock(): the owner gives up one hold; the last one frees the mutex.
Unlocked(m) ==
  IF m.count <= 1 THEN FreeMutex ELSE [m EXCEPT !.count = m.count - 1]

HoldCount(m, t) == IF m.owner = t THEN m.count ELSE 0

\* ------------------------------------------------------------ hook checks
\* Mutant: the check of enabled is missing.
HookAssign_NoCheck(i, Variable) == i.value

\* MKMOCK_HOOK: if (inst->enabled) Variable = inst->value;
HookAssign(i, Variable) == IF i.enabled THEN i.value ELSE Variable

\* Mutant: the test for nullptr is missing.
AllocDeleted_NoNullTest(i, Variable) ==
  IF i.enabled THEN <<Variable>> ELSE <<>>

\* MKMOCK_HOOK_ALLOC: the arguments Deleter is called with, in order. The call
\* comes before the assignment, so it sees the Variable the call site computed.
AllocDeleted(i, Variable) ==
  IF i.enabled /\ Variable # Default THEN <<Variable>> ELSE <<>>

\* MKMOCK_HOOK_ALLOC: the Variable after the macro.
AllocAssign(i, Variable) == IF i.enabled THEN i.value ELSE Variable

\* ------------------------------------------------------ scoped override
\* Barrier variant, first block: saved_exc = {}; saved_value = value;
\* value = MockedValue; enabled = true.
BarrierActivate(i, MockedValue) ==
  [enabled |-> TRUE, value |-> MockedValue, saved_value |-> i.value,
   saved_exc |-> NoExc]

\* Barrier variant, catch (const std::exception &): saved_exc = current_exception().
BarrierCatch(i, e) == [i EXCEPT !.saved_exc = e]

\* Mutant: inst->saved_value = {} is missing from the last block.
BarrierRestore_KeepSaved(i) ==
  [enabled |-> FALSE, value |-> i.saved_value, saved_value |-> i.saved_value,
   saved_exc |-> NoExc]

\* Barrier variant, last block up to the swap: enabled = false;
\* value = saved_value; saved_value = {}; swap(saved_exc, inst->saved_exc).
BarrierRestore(i) ==
  [enabled |-> FALSE, value |-> i.saved_value, saved_value |-> Default,
   saved_exc |-> NoExc]

\* Mutant: the swap is missing, the local stays empty.
BarrierSwapped_NoSwap(i) == NoExc

\* The local saved_exc after std::swap(saved_exc, inst->saved_exc).
BarrierSwapped(i) == i.saved_exc

\* Fine-grained variant, first block: SavedValue = value; value = MockedValue;
\* enabled = true.
FineSaved(i) == i.value

\* Mutant: inst->value = MockedValue is missing from the first block.
FineActivate_NoValue(i, MockedValue) == [i EXCEPT !.enabled = TRUE]

FineActivate(i, MockedValue) ==
  [i EXCEPT !.value = MockedValue, !.enabled = TRUE]

\* Mutant: enabled = false is missing from the last block.
FineRestore_StillEnabled(i, SavedValue) == [i EXCEPT !.value = SavedValue]

\* Mutant: the value is reset to Type{} instead of the saved one.
FineRestore_Reset(i, SavedValue) ==
  [i EXCEPT !.enabled = FALSE, !.value = Default]

\* Mutant: inst->value = SavedValue is missing from the last block.
FineRestore_KeepValue(i, SavedValue) == [i EXCEPT !.enabled = FALSE]

\* Fine-grained variant, last block: enabled = false; value = SavedValue.
FineRestore(i, SavedValue) ==
  [i EXCEPT !.enabled = FALSE, !.value = SavedValue]

\* Mutant: the exception is dropped.
Rethrown_Never(local_exc) == NoExc

\* if (saved_exc) std::rethrow_exception(saved_exc);
Rethrown(local_exc) == local_exc

\* Mutant: catch (...).
Handles_All(e) == TRUE

\* catch (const std::exception &): the one handler of the try statement.
Handles(e) == e \in Recognized

\* ------------------------------------------------------------- threads
\* One expansion of MKMOCK_WITH_ENABLED_HOOK. SavedValue and saved_exc are the
\* locals of the expansion; pre, alone, nested, raised, held and swallowed are
\* history: the value found at activation, whether no other thread had an
\* expansion on the tag meanwhile, the deepest same-tag nesting run inside the
\* snippet, what left the snippet, the thread's hold count on the mutex before
\* the call, and whether the snippet handled an exception of a nested expansion.
Frame(T, V, a, h) ==
  [tag |-> T, MockedValue |-> V, pc |-> "lock", SavedValue |-> Default,
   saved_exc |-> NoExc, pre |-> Default, alone |-> a, nested |-> 0,
   raised |-> NoExc, held |-> h, swallowed |-> FALSE]

NoHook ==
  [pc |-> "idle", kind |-> "hook", tag |-> "T1", Variable |-> Default,
   real |-> Default, en |-> FALSE, val |-> Default, deleted |-> <<>>,
   inside |-> FALSE, expect |-> Default, after |-> FALSE, alone |-> TRUE,
   during |-> FALSE, cnt0 |-> 0, cnt1 |-> 0]

NoRet ==
  [kind |-> "none", tag |-> "T1", MockedValue |-> Default, pre |-> Default,
   exc |-> NoExc, raised |-> NoExc, enabled |-> FALSE, value |-> Default,
   alone |-> TRUE, nested |-> 0, depth |-> 0, held |-> 0, count |-> 0,
   restored |-> FALSE, swallowed |-> FALSE]

Top(t) == stack[t][Len(stack[t])]

SetTop(t, f) == [stack EXCEPT ![t] = [@ EXCEPT ![Len(@)] = f]]

Pop(t) == [stack EXCEPT ![t] = SubSeq(@, 1, Len(@) - 1)]

FramesOn(t, T) == {i \in 1..Len(stack[t]) : stack[t][i].tag = T}

Max(S) == CHOOSE x \in S : \A y \in S : y <= x

\* Activation done, deactivation and release of the lock not yet done.
InProgress(f) == f.pc \in {"block", "relock", "restore", "unlock"}

OthersInProgress(t, T) ==
  \E u \in Threads \ {t} : \E i \in FramesOn(u, T) : InProgress(stack[u][i])

\* The thread is at a point of its test or of a CodeSnippet where it may start
\* something: nothing of its own is half done and nothing is in flight.
Ready(t) ==
  /\ hk[t].pc = "idle"
  /\ ret[t].kind = "none"
  /\ exc[t] = NoExc
  /\ IF stack[t] = <<>> THEN TRUE ELSE Top(t).pc = "block"

Setup ==
  /\ variant \in Variants
  /\ inst = [T \in Tags |-> mkmock_Tag]
  /\ mutex = [T \in Tags |-> FreeMutex]
  /\ stack = [t \in Threads |-> <<>>]
  /\ hk = [t \in Threads |-> NoHook]
  /\ exc = [t \in Threads |-> NoExc]
  /\ ret = [t \in Threads |-> NoRet]
  /\ hazard = [T \in Tags |-> FALSE]
  /\ entered = 0

\* A test with two threads.
Init == Setup /\ threads = Threads

\* A test with one thread.
InitSeq == Setup /\ threads = {"A"}

\* --------------------------------------------------------- hook check steps
\* A call site reaches one of the two macros. MKMOCK_HOOK_ALLOC exists in the
\* barrier header only.
CallHook(t) ==
  /\ t \in threads
  /\ Ready(t)
  /\ \E T \in Tags, k \in {"hook", "alloc"} :
       /\ k = "alloc" => variant = "barrier"
       /\ hk' = [hk EXCEPT ![t] =
            [NoHook EXCEPT !.pc = "lock", !.kind = k, !.tag = T,
                           !.cnt0 = HoldCount(mutex[T], t)]]
  /\ UNCHANGED <<build, inst, mutex, stack, exc, ret, hazard, entered>>

\* std::unique_lock _{inst->mutex};
HookLock(t) ==
  /\ t \in threads
  /\ hk[t].pc = "lock"
  /\ CanLock(variant, mutex[hk[t].tag], t)
  /\ mutex' = [mutex EXCEPT ![hk[t].tag] = Locked(@, t)]
  /\ hk' = [hk EXCEPT ![t].pc = "body"]
  /\ UNCHANGED <<build, inst, stack, exc, ret, hazard, entered>>

\* History of a hook check, taken as its body runs.
HookSeen(t, h) ==
  LET T == h.tag
      on == FramesOn(t, T)
      f == stack[t][Max(on)]
  IN [h EXCEPT !.en = inst[T].enabled, !.val = inst[T].value,
               !.inside = (on # {}),
               !.expect = IF on = {} THEN Default ELSE f.MockedValue,
               !.after = IF on = {} THEN FALSE ELSE f.nested > 0,
               !.alone = IF on = {} THEN TRUE ELSE f.alone,
               !.during = OthersInProgress(t, T)]

\* MKMOCK_HOOK: the body, on the Variable r the call site computed (nothing but
\* the macro reads it, so its value is drawn here), then the end of the scope
\* releases the lock.
MKMOCK_HOOK(t) ==
  /\ t \in threads
  /\ hk[t].pc = "body"
  /\ hk[t].kind = "hook"
  /\ \E r \in Values :
       LET T == hk[t].tag
           m == Unlocked(mutex[T])
       IN /\ mutex' = [mutex EXCEPT ![T] = m]
          /\ hk' = [hk EXCEPT ![t] =
               [HookSeen(t, hk[t]) EXCEPT !.pc = "done", !.real = r,
                  !.Variable = HookAssign(inst[T], r),
                  !.cnt1 = HoldCount(m, t)]]
  /\ UNCHANGED <<build, inst, stack, exc, ret, hazard, entered>>

\* MKMOCK_HOOK_ALLOC: the body, then the end of the scope releases the lock.
MKMOCK_HOOK_ALLOC(t) ==
  /\ t \in threads
  /\ hk[t].pc = "body"
  /\ hk[t].kind = "alloc"
  /\ \E r \in Values :
       LET T == hk[t].tag
           m == Unlocked(mutex[T])
       IN /\ mutex' = [mutex EXCEPT ![T] = m]
          /\ hk' = [hk EXCEPT ![t] =
               [HookSeen(t, hk[t]) EXCEPT !.pc = "done", !.real = r,
                  !.deleted = AllocDeleted(inst[T], r),
                  !.Variable = AllocAssign(inst[T], r),
                  !.cnt1 = HoldCount(m, t)]]
  /\ UNCHANGED <<build, inst, stack, exc, ret, hazard, entered>>

\* The call site goes on with its Variable; the macro's scope is gone.
HookResume(t) ==
  /\ t \in threads
  /\ hk[t].pc = "done"
  /\ hk' = [hk EXCEPT ![t] = NoHook]
  /\ UNCHANGED <<build, inst, mutex, stack, exc, ret, hazard, entered>>

\* ------------------------------------------------- scoped override steps
\* The deepest same-tag nesting each enclosing expansion on T has seen, once one
\* more expansion on T starts above it.
Nesting(sq, T) ==
  [i \in 1..Len(sq) |->
     IF sq[i].tag = T
     THEN LET above == Cardinality({j \in (i + 1)..Len(sq) : sq[j].tag = T}) + 1
          IN [sq[i] EXCEPT !.nested = IF above > @ THEN above ELSE @]
     ELSE sq[i]]

NotAlone(sq, T) ==
  [i \in 1..Len(sq) |-> IF sq[i].tag = T THEN [sq[i] EXCEPT !.alone = FALSE] ELSE sq[i]]

\* The test, or a CodeSnippet, reaches MKMOCK_WITH_ENABLED_HOOK(T, V, ...).
Enter(t) ==
  /\ t \in threads
  /\ Ready(t)
  /\ entered < MaxEnter
  /\ entered' = entered + 1
  /\ \E T \in Tags, V \in Values :
       LET a == \A u \in Threads \ {t} : FramesOn(u, T) = {}
           f == Frame(T, V, a, HoldCount(mutex[T], t))
       IN stack' = [u \in Threads |->
                      IF u = t THEN Append(Nesting(stack[t], T), f)
                      ELSE NotAlone(stack[u], T)]
  /\ UNCHANGED <<build, inst, mutex, hk, exc, ret, hazard>>

\* inst->mutex.lock() (barrier); std::unique_lock _{inst->mutex} (fine, first block).
WEH_Lock(t) ==
  /\ t \in threads
  /\ stack[t] # <<>>
  /\ Top(t).pc = "lock"
  /\ CanLock(variant, mutex[Top(t).tag], t)
  /\ mutex' = [mutex EXCEPT ![Top(t).tag] = Locked(@, t)]
  /\ stack' = SetTop(t, [Top(t) EXCEPT !.pc = "activate"])
  /\ UNCHANGED <<build, inst, hk, exc, ret, hazard, entered>>

\* The rest of the first block; in the fine variant its end releases the lock.
WEH_Activate(t) ==
  /\ t \in threads
  /\ stack[t] # <<>>
  /\ Top(t).pc = "activate"
  /\ LET f == Top(t)
         T == f.tag
     IN IF variant = "barrier"
        THEN /\ inst' = [inst EXCEPT ![T] = BarrierActivate(@, f.MockedValue)]
             /\ stack' = SetTop(t, [f EXCEPT !.pc = "block", !.pre = inst[T].value])
             /\ UNCHANGED mutex
        ELSE /\ inst' = [inst EXCEPT ![T] = FineActivate(@, f.MockedValue)]
             /\ stack' = SetTop(t, [f EXCEPT !.pc = "block", !.pre = inst[T].value,
                                             !.SavedValue = FineSaved(inst[T])])
             /\ mutex' = [mutex EXCEPT ![T] = Unlocked(@)]
  /\ UNCHANGED <<build, hk, exc, ret, hazard, entered>>

\* The CodeSnippet throws.
BlockThrow(t) ==
  /\ t \in threads
  /\ Ready(t)
  /\ stack[t] # <<>>
  /\ \E e \in Exceptions : exc' = [exc EXCEPT ![t] = e]
  /\ UNCHANGED <<build, inst, mutex, stack, hk, ret, hazard, entered>>

\* A nested expansion has just raised into the CodeSnippet, which has a handler
\* of its own around it (try { MKMOCK_WITH_ENABLED_HOOK(...) } catch (...) {})
\* and goes on.
BlockSwallow(t) ==
  /\ t \in threads
  /\ hk[t].pc = "idle"
  /\ ret[t].kind = "raise"
  /\ stack[t] # <<>>
  /\ exc' = [exc EXCEPT ![t] = NoExc]
  /\ ret' = [ret EXCEPT ![t] = NoRet]
  /\ stack' = SetTop(t, [Top(t) EXCEPT !.swallowed = TRUE])
  /\ UNCHANGED <<build, inst, mutex, hk, hazard, entered>>

\* Where the expansion goes after the try statement.
AfterTry(v) == IF v = "barrier" THEN "restore" ELSE "relock"

\* The CodeSnippet ends normally.
BlockEnd(t) ==
  /\ t \in threads
  /\ Ready(t)
  /\ stack[t] # <<>>
  /\ stack' = SetTop(t, [Top(t) EXCEPT !.pc = AfterTry(variant)])
  /\ UNCHANGED <<build, inst, mutex, hk, exc, ret, hazard, entered>>

\* catch (const std::exception &): the exception leaves the CodeSnippet and is
\* kept, in the hook state (barrier) or in the local (fine).
WEH_Catch(t) ==
  /\ t \in threads
  /\ hk[t].pc = "idle" /\ ret[t].kind = "none"
  /\ exc[t] # NoExc /\ Handles(exc[t])
  /\ stack[t] # <<>>
  /\ LET f == Top(t)
         T == f.tag
     IN IF variant = "barrier"
        THEN /\ inst' = [inst EXCEPT ![T] = BarrierCatch(@, exc[t])]
             /\ stack' = SetTop(t, [f EXCEPT !.pc = AfterTry(variant),
                                             !.raised = exc[t]])
        ELSE /\ stack' = SetTop(t, [f EXCEPT !.pc = AfterTry(variant),
                                             !.raised = exc[t], !.saved_exc = exc[t]])
             /\ UNCHANGED inst
  /\ exc' = [exc EXCEPT ![t] = NoExc]
  /\ UNCHANGED <<build, mutex, hk, ret, hazard, entered>>

\* What the caller of an expansion finds when the expansion ends.
Ended(t, f, k, e, r) ==
  [kind |-> k, tag |-> f.tag, MockedValue |-> f.MockedValue, pre |-> f.pre,
   exc |-> e, raised |-> f.raised, enabled |-> inst'[f.tag].enabled,
   value |-> inst'[f.tag].value, alone |-> f.alone, nested |-> f.nested,
   depth |-> Cardinality(FramesOn(t, f.tag)), held |-> f.held,
   count |-> HoldCount(mutex'[f.tag], t), restored |-> r,
   swallowed |-> f.swallowed]

\* Mutant: the mutex is released on the way out (a scope guard owns the lock).
WEH_Propagate_Unlocks(t) ==
  /\ t \in threads
  /\ hk[t].pc = "idle" /\ ret[t].kind = "none"
  /\ exc[t] # NoExc /\ ~Handles(exc[t])
  /\ stack[t] # <<>>
  /\ LET f == [Top(t) EXCEPT !.raised = exc[t]]
     IN /\ stack' = Pop(t)
        /\ hazard' = [hazard EXCEPT ![f.tag] = TRUE]
        /\ mutex' = [mutex EXCEPT ![f.tag] =
             IF variant = "barrier" THEN Unlocked(@) ELSE @]
        /\ UNCHANGED <<build, inst, hk, exc, entered>>
        /\ ret' = [ret EXCEPT ![t] = Ended(t, f, "raise", exc[t], FALSE)]

\* No handler of the expansion matches: the exception leaves the expansion at
\* once, past the last block.
WEH_Propagate(t) ==
  /\ t \in threads
  /\ hk[t].pc = "idle" /\ ret[t].kind = "none"
  /\ exc[t] # NoExc /\ ~Handles(exc[t])
  /\ stack[t] # <<>>
  /\ LET f == [Top(t) EXCEPT !.raised = exc[t]]
     IN /\ stack' = Pop(t)
        /\ hazard' = [hazard EXCEPT ![f.tag] = TRUE]
        /\ UNCHANGED <<build, inst, mutex, hk, exc, entered>>
        /\ ret' = [ret EXCEPT ![t] = Ended(t, f, "raise", exc[t], FALSE)]

\* std::unique_lock _{inst->mutex}; of the last block (fine).
WEH_Relock(t) ==
  /\ t \in threads
  /\ stack[t] # <<>>
  /\ Top(t).pc = "relock"
  /\ CanLock(variant, mutex[Top(t).tag], t)
  /\ mutex' = [mutex EXCEPT ![Top(t).tag] = Locked(@, t)]
  /\ stack' = SetTop(t, [Top(t) EXCEPT !.pc = "restore"])
  /\ UNCHANGED <<build, inst, hk, exc, ret, hazard, entered>>

\* The last block: disable and restore; the barrier variant also moves the kept
\* exception to a local, the fine variant's scope ends and releases the lock.
WEH_Restore(t) ==
  /\ t \in threads
  /\ stack[t] # <<>>
  /\ Top(t).pc = "restore"
  /\ LET f == Top(t)
         T == f.tag
     IN IF variant = "barrier"
        THEN /\ inst' = [inst EXCEPT ![T] = BarrierRestore(@)]
             /\ stack' = SetTop(t, [f EXCEPT !.pc = "unlock",
                                             !.saved_exc = BarrierSwapped(inst[T])])
             /\ UNCHANGED mutex
        ELSE /\ inst' = [inst EXCEPT ![T] = FineRestore(@, f.SavedValue)]
             /\ stack' = SetTop(t, [f EXCEPT !.pc = "finish"])
             /\ mutex' = [mutex EXCEPT ![T] = Unlocked(@)]
  /\ UNCHANGED <<build, hk, exc, ret, hazard, entered>>

\* inst->mutex.unlock() (barrier).
WEH_Unlock(t) ==
  /\ t \in threads
  /\ stack[t] # <<>>
  /\ Top(t).pc = "unlock"
  /\ mutex' = [mutex EXCEPT ![Top(t).tag] = Unlocked(@)]
  /\ stack' = SetTop(t, [Top(t) EXCEPT !.pc = "finish"])
  /\ UNCHANGED <<build, inst, hk, exc, ret, hazard, entered>>

\* if (saved_exc) rethrow_exception(saved_exc); otherwise the expansion ends.
WEH_Finish(t) ==
  /\ t \in threads
  /\ stack[t] # <<>>
  /\ Top(t).pc = "finish"
  /\ LET f == Top(t)
         e == Rethrown(f.saved_exc)
     IN /\ stack' = Pop(t)
        /\ exc' = [exc EXCEPT ![t] = e]
        /\ UNCHANGED <<build, inst, mutex, hk, hazard, entered>>
        /\ ret' = [ret EXCEPT ![t] =
             Ended(t, f, IF e = NoExc THEN "return" ELSE "raise", e, TRUE)]

\* The caller of the expansion goes on (or the exception travels on).
Resume(t) ==
  /\ t \in threads
  /\ ret[t].kind # "none"
  /\ ret' = [ret EXCEPT ![t] = NoRet]
  /\ UNCHANGED <<build, inst, mutex, stack, hk, exc, hazard, entered>>

\* The test itself handles an exception that left its outermost expansion.
TestCatch(t) ==
  /\ t \in threads
  /\ hk[t].pc = "idle" /\ ret[t].kind = "none"
  /\ exc[t] # NoExc
  /\ stack[t] = <<>>
  /\ exc' = [exc EXCEPT ![t] = NoExc]
  /\ UNCHANGED <<build, inst, mutex, stack, hk, ret, hazard, entered>>

Next ==
  \E t \in Threads :
    \/ CallHook(t)
    \/ HookLock(t)
    \/ MKMOCK_HOOK(t)
    \/ MKMOCK_HOOK_ALLOC(t)
    \/ HookResume(t)
    \/ Enter(t)
    \/ WEH_Lock(t)
    \/ WEH_Activate(t)
    \/ BlockThrow(t)
    \/ BlockSwallow(t)
    \/ BlockEnd(t)
    \/ WEH_Catch(t)
    \/ WEH_Propagate(t)
    \/ WEH_Relock(t)
    \/ WEH_Restore(t)
    \/ WEH_Unlock(t)
    \/ WEH_Finish(t)
    \/ Resume(t)
    \/ TestCatch(t)

Spec == Init /\ [][Next]_vars

SpecSeq == InitSeq /\ [][Next]_vars

\* The statements of the three macros themselves: a thread that is at one of
\* them, and can take it, does take it.
MacroStep(t) ==
  \/ HookLock(t) \/ MKMOCK_HOOK(t) \/ MKMOCK_HOOK_ALLOC(t) \/ HookResume(t)
  \/ WEH_Lock(t) \/ WEH_Activate(t) \/ WEH_Catch(t) \/ WEH_Propagate(t)
  \/ WEH_Relock(t) \/ WEH_Restore(t) \/ WEH_Unlock(t) \/ WEH_Finish(t)
  \/ Resume(t)

\* Every CodeSnippet terminates: it ends or throws after finitely many steps.
SnippetEnds(t) == BlockEnd(t) \/ BlockThrow(t)

Fairness ==
  \A t \in Threads : WF_vars(MacroStep(t)) /\ SF_vars(SnippetEnds(t))

\* One thread, scheduled fairly, snippets that terminate.
SpecSeqFair == InitSeq /\ [][Next]_vars /\ Fairness

\* ------------------------------------------------------------ the claims
Returned(t) == ret[t].kind = "return"

Raised(t) == ret[t].kind = "raise"

HookDone(t) == hk[t].pc = "done"

\* C1: barrier variant: after an expansion whose snippet ended normally returns
\* -- with same-tag expansions nested in the snippet to any depth, no other
\* thread overriding the tag meanwhile and no unrecognized exception before --
\* enabled is false and value is what it was before the expansion started.
C1_BarrierRestoresOnReturn ==
  \A t \in Threads :
    (variant = "barrier" /\ Returned(t) /\ ret[t].alone /\ ~hazard[ret[t].tag])
      => (~ret[t].enabled /\ ret[t].value = ret[t].pre)

\* C2: fine-grained variant: with at most one thread at a time overriding the
\* tag, after an expansion whose snippet ended normally returns -- nested
\* same-tag expansions included -- enabled is false and value is what it was
\* before the expansion started.
C2_FineRestoresOnReturn ==
  \A t \in Threads :
    (variant = "fine" /\ Returned(t) /\ ret[t].alone)
      => (~ret[t].enabled /\ ret[t].value = ret[t].pre)

C2_Witness ==
  \E t \in Threads :
    /\ variant = "fine" /\ Returned(t) /\ ret[t].alone
    /\ ret[t].depth = 2 /\ ret[t].nested = 1 /\ ~hazard[ret[t].tag]
    /\ ret[t].pre # Default /\ ret[t].MockedValue # ret[t].pre

\* C3: both variants: an expansion with no expansion nested in its snippet,
\* whose snippet raises a recognized exception E, raises that E to its caller,
\* and when E reaches the caller enabled is false and value is the pre-call
\* value (no other thread overriding the tag meanwhile).
C3_RecognizedRestoredThenRaised ==
  \A t \in Threads :
    (ret[t].kind # "none" /\ ret[t].raised \in Recognized /\ ret[t].nested = 0
       /\ ret[t].alone)
      => /\ Raised(t) /\ ret[t].exc = ret[t].raised /\ exc[t] = ret[t].raised
         /\ ret[t].restored
         /\ ~ret[t].enabled /\ ret[t].value = ret[t].pre

C3_Witness ==
  \E t \in Threads :
    /\ Raised(t) /\ ret[t].raised = "E2" /\ ret[t].nested = 0 /\ ret[t].alone
    /\ ret[t].MockedValue # ret[t].pre

\* C4: a hook check on T made by the overriding thread inside the snippet of
\* its expansion on T, no nested expansion on T being in progress, sets the
\* Variable to the expansion's MockedValue -- also after a nested expansion on
\* T has returned.
C4_SnippetSeesMockedValue ==
  \A t \in Threads :
    (HookDone(t) /\ hk[t].kind = "hook" /\ hk[t].inside /\ hk[t].alone
       /\ ~hazard[hk[t].tag])
      => hk[t].Variable = hk[t].expect

\* C5: MKMOCK_HOOK leaves the Variable alone when the tag is disabled and sets
\* it to value when enabled, whatever it held; it changes no field of the hook
\* state and ends holding the mutex as often as before it started.
C5_HookResult ==
  \A t \in Threads :
    (HookDone(t) /\ hk[t].kind = "hook")
      => /\ hk[t].Variable = (IF hk[t].en THEN hk[t].val ELSE hk[t].real)
         /\ hk[t].cnt1 = hk[t].cnt0

C5_HookStep ==
  \A t \in Threads :
    (hk[t].pc = "body" /\ hk[t].kind = "hook" /\ hk'[t].pc = "done")
      => /\ inst' = inst
         /\ HoldCount(mutex'[hk[t].tag], t) = hk[t].cnt0
         /\ \A T \in Tags \ {hk[t].tag} : mutex'[T] = mutex[T]

C5_HookCheck == []C5_HookResult /\ [][C5_HookStep]_vars

C5_Witness ==
  \E t \in Threads :
    /\ HookDone(t) /\ hk[t].kind = "hook" /\ hk[t].en
    /\ hk[t].real # hk[t].val /\ hk[t].Variable = hk[t].val

\* C6: MKMOCK_HOOK_ALLOC calls Deleter exactly once, on the Variable as the
\* call site computed it, if and only if the tag is enabled and that Variable
\* is not null; disabled, no call and the Variable stays; enabled, the Variable
\* ends as value whether or not Deleter ran.
C6_AllocRelease ==
  \A t \in Threads :
    (HookDone(t) /\ hk[t].kind = "alloc")
      => /\ hk[t].deleted =
              (IF hk[t].en /\ hk[t].real # Default THEN <<hk[t].real>> ELSE <<>>)
         /\ hk[t].Variable = (IF hk[t].en THEN hk[t].val ELSE hk[t].real)

C6_Witness ==
  \E t \in Threads :
    /\ HookDone(t) /\ hk[t].kind = "alloc" /\ hk[t].en
    /\ hk[t].real # Default /\ hk[t].val = Default
    /\ hk[t].deleted = <<hk[t].real>> /\ hk[t].Variable = Default

\* C7: barrier variant: while a thread's expansion on T is between its
\* activation and the release of the lock, no other thread completes a hook
\* check or an activation on T; and, no unrecognized exception having left T, a
\* hook check on T by a thread with no expansion on T in progress finds the tag
\* disabled and leaves its Variable alone.
C7_Barrier ==
  variant = "barrier" =>
    \A t \in Threads :
      /\ HookDone(t) => ~hk[t].during
      /\ \A T \in Tags :
           (\E i \in FramesOn(t, T) : InProgress(stack[t][i]))
             => ~OthersInProgress(t, T)
      /\ (HookDone(t) /\ ~hk[t].inside /\ ~hazard[hk[t].tag])
           => (~hk[t].en /\ hk[t].Variable = hk[t].real)

\* A hook check of another thread is held up at the lock by an override.
C7_Witness ==
  \E t \in Threads :
    /\ variant = "barrier"
    /\ hk[t].pc = "lock"
    /\ OthersInProgress(t, hk[t].tag)
    /\ ~ENABLED HookLock(t)

\* A thread is about to take a tag's mutex.
AtLock(t) ==
  \/ hk[t].pc = "lock"
  \/ (stack[t] # <<>> /\ Top(t).pc \in {"lock", "relock"})

LockTag(t) == IF hk[t].pc = "lock" THEN hk[t].tag ELSE Top(t).tag

LockStep(t) == HookLock(t) \/ WEH_Lock(t) \/ WEH_Relock(t)

\* A thread is inside a macro of the tag.
UsesTag(u, T) ==
  \/ FramesOn(u, T) # {}
  \/ (hk[u].pc \in {"lock", "body"} /\ hk[u].tag = T)

\* C8: the lock is per tag: in both variants a thread has to wait for the mutex
\* of T only while another thread is inside a macro of T itself (or has left T
\* locked by an unrecognized exception); threads working on distinct tags never
\* wait for each other.
C8_NoCrossTagBlocking ==
  \A t \in Threads :
    (AtLock(t) /\ ~ENABLED LockStep(t))
      => \E u \in Threads \ {t} :
           \/ UsesTag(u, LockTag(t))
           \/ (hazard[LockTag(t)] /\ HoldCount(mutex[LockTag(t)], u) > 0)

\* Two threads hold the mutexes of two distinct tags at once, each inside its
\* own expansion.
C8_Witness ==
  \E t \in Threads, u \in Threads, T \in Tags, S \in Tags :
    /\ t # u /\ T # S
    /\ mutex[T].owner = t /\ mutex[S].owner = u
    /\ stack[t] # <<>> /\ stack[u] # <<>>
    /\ Top(t).tag = T /\ Top(u).tag = S
    /\ ~hazard[T] /\ ~hazard[S]

C9_State ==
  \A t \in Threads :
    (Raised(t) /\ ret[t].exc \in Unrecognized)
      => /\ ~ret[t].restored
         /\ exc[t] = ret[t].exc
         /\ variant = "barrier" => ret[t].count > ret[t].held
         /\ (ret[t].nested = 0 /\ ret[t].alone)
              => (ret[t].enabled /\ ret[t].value = ret[t].MockedValue)

C9_Step ==
  /\ \A t \in Threads :
       (exc[t] \in Unrecognized /\ Len(stack'[t]) < Len(stack[t]))
         => (inst' = inst /\ mutex' = mutex)
  /\ \A T \in Tags :
       (\A t \in Threads : FramesOn(t, T) = {}) => inst'[T] = inst[T]

C10_RaisesIffRecognized ==
  \A t \in Threads :
    ret[t].kind # "none" => (Raised(t) <=> ret[t].raised \in Recognized)

\* C10, amended: an expansion raises to its caller if and only if its own
\* snippet raised, and then it raises that same exception; a snippet that ends
\* normally -- also after handling the exception of a nested expansion --
\* makes it return with nothing in flight.
C10_RaisesIffSnippetRaised ==
  \A t \in Threads :
    ret[t].kind # "none"
      => /\ Raised(t) <=> ret[t].raised # NoExc
         /\ Raised(t) => (ret[t].exc = ret[t].raised /\ exc[t] = ret[t].raised)
         /\ Returned(t) => (ret[t].exc = NoExc /\ exc[t] = NoExc)

\* An expansion returns after its snippet handled a recognized exception that a
\* nested expansion on the tag raised.
C10_Witness ==
  \E t \in Threads :
    /\ Returned(t) /\ ret[t].swallowed /\ ret[t].nested >= 1
    /\ ~hazard[ret[t].tag]

\* An expansion that has run its first block (enabled = true) and not yet the
\* first statement of its last block (enabled = false).
Activated(f) == f.pc \in {"block", "relock", "restore"}

\* C11: both variants, no unrecognized exception having left the tag: enabled
\* is true only while some expansion on the tag has activated and not yet
\* deactivated; initially, and whenever no expansion on the tag is in progress,
\* enabled is false.
C11_EnabledOnlyWhileActive ==
  \A T \in Tags :
    ~hazard[T] =>
      /\ inst[T].enabled
           => \E t \in Threads : \E i \in FramesOn(t, T) : Activated(stack[t][i])
      /\ (\A t \in Threads : FramesOn(t, T) = {}) => ~inst[T].enabled

\* One thread has already deactivated, the other has activated after that and
\* is in its snippet.
C11_Witness ==
  \E T \in Tags, t \in Threads, u \in Threads :
    /\ t # u
    /\ ~hazard[T] /\ inst[T].enabled
    /\ stack[t] # <<>> /\ Top(t).tag = T /\ Top(t).pc = "block"
    /\ stack[u] # <<>> /\ Top(u).tag = T /\ Top(u).pc = "finish"

\* The positions of an expansion whose next statements read or write the hook
\* state: the rest of the first block, the last block, and in the barrier
\* variant the snippet's end in the catch handler (inst->saved_exc = ...).
AccessPcs(v) ==
  IF v = "barrier" THEN {"activate", "block", "restore"}
  ELSE {"activate", "restore"}

\* C12: in both variants a thread that is about to read or write enabled,
\* value, saved_value or saved_exc of a tag -- in a hook check, in activation,
\* in the catch handler, in restoration -- owns that tag's mutex, and every
\* step that changes a tag's hook state is taken by the owner of its mutex.
C12_State ==
  \A t \in Threads :
    /\ hk[t].pc = "body" => mutex[hk[t].tag].owner = t
    /\ \A i \in 1..Len(stack[t]) :
         stack[t][i].pc \in AccessPcs(variant)
           => mutex[stack[t][i].tag].owner = t

C12_Step ==
  \A T \in Tags :
    inst'[T] # inst[T]
      => \E t \in Threads : mutex[T].owner = t /\ stack'[t] # stack[t]

C12_MutationDiscipline == []C12_State /\ [][C12_Step]_vars

\* Fine-grained variant: a hook check of one thread reads the hook state, under
\* the lock, while another thread is in its snippet on the same tag.
C12_Witness ==
  \E t \in Threads, u \in Threads :
    /\ t # u /\ variant = "fine"
    /\ hk[t].pc = "body" /\ mutex[hk[t].tag].owner = t
    /\ stack[u] # <<>> /\ Top(u).tag = hk[t].tag /\ Top(u).pc = "block"
    /\ inst[hk[t].tag].enabled

\* The expansions on a tag in progress, over all the threads.
AllFramesOn(T) == {p \in Threads \X (1..MaxEnter) : p[2] \in FramesOn(p[1], T)}

\* C13: fine-grained variant: while one expansion MKMOCK_WITH_ENABLED_HOOK(T,
\* V, ...) is the only one in progress on T, a hook check on T that another
\* thread completes leaves its Variable alone or sets it to exactly V; a hook
\* check completed when no expansion on T is in progress (none having been
\* left by an unrecognized exception) leaves its Variable alone.
C13_Step ==
  \A t \in Threads :
    (variant = "fine" /\ hk[t].pc = "body" /\ hk'[t].pc = "done" /\ ~hazard[hk[t].tag])
      => LET T == hk[t].tag
             on == AllFramesOn(T)
         IN /\ (on = {}) => hk'[t].Variable = hk'[t].real
            /\ \A u \in Threads \ {t} : \A i \in FramesOn(u, T) :
                 (on = {<<u, i>>})
                   => hk'[t].Variable \in {hk'[t].real, stack[u][i].MockedValue}

C13_FineConcurrentHookCheck == [][C13_Step]_vars

\* A hook check of another thread has completed during the snippet and has set
\* its Variable to the mocked value.
C13_Witness ==
  \E t \in Threads, u \in Threads :
    /\ t # u /\ variant = "fine"
    /\ HookDone(t) /\ hk[t].during /\ hk[t].en
    /\ AllFramesOn(hk[t].tag) = {<<u, 1>>}
    /\ stack[u][1].pc = "block"
    /\ hk[t].Variable = stack[u][1].MockedValue /\ hk[t].Variable # hk[t].real
    /\ mutex[hk[t].tag].owner = NoThread

\* A thread waits at a mutex it cannot take.
Blocked(t) == AtLock(t) /\ ~ENABLED LockStep(t)

\* C14: barrier variant, snippets ending normally or with recognized
\* exceptions (no unrecognized exception has left a lock owned): no deadlocked
\* state is reachable, also when snippets run hook checks or expansions on tags
\* other than their own: never are all the threads of the test waiting at a
\* mutex.
C14_BarrierNoDeadlock ==
  (variant = "barrier" /\ \A T \in Tags : ~hazard[T])
    => ~(\A t \in threads : Blocked(t))

\* The thread is inside the snippet of one of its expansions on the tag.
InsideOwn(t, T) == \E i \in FramesOn(t, T) : InProgress(stack[t][i])

\* C15: barrier variant: a hook check on T or a nested expansion on T that the
\* overriding thread runs inside its snippet never waits at T's mutex, and the
\* catch handler is entered at once; a single thread, with same-tag nesting to
\* any depth, finishes every expansion and every hook check it starts.
C15_NeverBlocks ==
  variant = "barrier" =>
    \A t \in Threads :
      /\ (AtLock(t) /\ InsideOwn(t, LockTag(t))) => ENABLED LockStep(t)
      /\ (exc[t] \in Recognized /\ stack[t] # <<>> /\ ret[t].kind = "none")
           => ENABLED WEH_Catch(t)

C15_Terminates ==
  \A t \in Threads :
    /\ (variant = "barrier" /\ stack[t] # <<>>) ~> (stack[t] = <<>>)
    /\ (variant = "barrier" /\ hk[t].pc = "lock") ~> (hk[t].pc = "done")

C15_ReentrantNeverBlocks == []C15_NeverBlocks /\ C15_Terminates

\* Three expansions on one tag nested in one thread, the mutex taken three times.
C15_Witness ==
  \E t \in Threads, T \in Tags :
    /\ variant = "barrier"
    /\ Cardinality(FramesOn(t, T)) = 3
    /\ mutex[T] = [owner |-> t, count |-> 3]
    /\ Top(t).pc = "block"

\* An expansion of the barrier variant has returned or raised a recognized
\* exception (its last block has run).
BarrierEnded(t) == variant = "barrier" /\ ret[t].kind # "none" /\ ret[t].restored

C16_State ==
  \A t \in Threads :
    /\ BarrierEnded(t)
         => /\ ret[t].count >= ret[t].held
            /\ ~hazard[ret[t].tag]
                 => /\ ret[t].count = ret[t].held
                    /\ ret[t].depth = 1
                         => /\ ret[t].held = 0
                            /\ mutex[ret[t].tag].owner # t
                            /\ (\A u \in Threads \ {t} : ~UsesTag(u, ret[t].tag))
                                 => mutex[ret[t].tag] = FreeMutex
    /\ (variant = "barrier" /\ stack[t] # <<>>) =>
         LET f == Top(t)
         IN /\ f.pc = "unlock"
                 => /\ ~inst[f.tag].enabled
                    /\ inst[f.tag].saved_value = Default
                    /\ inst[f.tag].saved_exc = NoExc
                    /\ HoldCount(mutex[f.tag], t) >= f.held + 1
                    /\ ~hazard[f.tag] => HoldCount(mutex[f.tag], t) = f.held + 1
                    /\ exc[t] = NoExc
            /\ f.pc = "finish"
                 => /\ HoldCount(mutex[f.tag], t) >= f.held
                    /\ ~hazard[f.tag] => HoldCount(mutex[f.tag], t) = f.held
                    /\ exc[t] = NoExc

\* The hold count of a thread on a tag's mutex goes down only at the unlock of
\* the last block (and at the end of a hook check's scope).
C16_Step ==
  \A t \in Threads : \A T \in Tags :
    (variant = "barrier" /\ HoldCount(mutex'[T], t) < HoldCount(mutex[T], t))
      => \/ hk[t].pc = "body" /\ hk[t].tag = T
         \/ stack[t] # <<>> /\ Top(t).tag = T /\ Top(t).pc = "unlock"

C17_SavedFieldHygiene ==
  \A T \in Tags :
    (variant = "barrier" /\ ~hazard[T]) =>
      /\ mutex[T].owner = NoThread
           => (inst[T].saved_value = Default /\ inst[T].saved_exc = NoExc)
      /\ inst[T].saved_value # Default
           => \E t \in Threads : \E i \in FramesOn(t, T) :
                /\ mutex[T].owner = t
                /\ stack[t][i].pc \in {"block", "restore"}
      /\ inst[T].saved_exc # NoExc
           => \E t \in Threads :
                /\ mutex[T].owner = t
                /\ stack[t] # <<>>
                /\ Top(t).tag = T /\ Top(t).pc = "restore"
                /\ Top(t).raised = inst[T].saved_exc

\* Between the catch handler and the last block of a nested expansion: both
\* saved fields are in use, the lock is held twice.
C17_Witness ==
  \E T \in Tags, t \in Threads :
    /\ variant = "barrier" /\ ~hazard[T]
    /\ mutex[T] = [owner |-> t, count |-> 2]
    /\ inst[T].saved_value # Default /\ inst[T].saved_exc = "E1"
    /\ Top(t).pc = "restore"

\* Fine-grained variant: the only two expansions of the run, one per thread, on
\* the same tag, overlapping in time, not nested in anything, have both run
\* their last block after snippets that ended normally (what is left of each
\* is `if (saved_exc)` with saved_exc empty, which touches nothing).
BothDone(t, u, T) ==
  /\ variant = "fine" /\ t # u /\ entered = 2
  /\ Len(stack[t]) = 1 /\ Len(stack[u]) = 1
  /\ stack[t][1].tag = T /\ stack[u][1].tag = T
  /\ stack[t][1].pc = "finish" /\ stack[u][1].pc = "finish"
  /\ stack[t][1].raised = NoExc /\ stack[u][1].raised = NoExc
  /\ ~stack[t][1].alone /\ ~stack[u][1].alone

C19_State ==
  variant = "barrier" =>
    /\ \A t \in Threads :
         (Raised(t) /\ ret[t].exc \in Unrecognized)
           => /\ ~ret[t].restored
              /\ mutex[ret[t].tag].owner = t
              /\ ret[t].count > ret[t].held
    /\ \A T \in Tags :
         hazard[T] =>
           /\ mutex[T].owner \in threads
           /\ mutex[T].count >= 1
           /\ \A u \in Threads :
                (AtLock(u) /\ LockTag(u) = T)
                  => (ENABLED LockStep(u) <=> u = mutex[T].owner)

C19_Step ==
  \A T \in Tags :
    (variant = "barrier" /\ hazard[T]) => mutex'[T].owner = mutex[T].owner

====
